---- MODULE Spec2Model ----
(***************************************************************************)
(* DeskSave: the classification-and-relocation engine.                     *)
(*                                                                         *)
(* The model follows move_files of src/script/deskSave.py and the GUI      *)
(* entry point organize_files/move_files of src/script/main.py.  A file    *)
(* name is a sequence of one-character strings, a path a sequence of       *)
(* names, and the filesystem a set of nodes [path, kind, id]; id is the    *)
(* path the node had in the initial state (<<>> for a directory created    *)
(* by the program), so a node keeps its identity when it is moved.         *)
(*                                                                         *)
(* Three specifications share the variables: Spec is the engine, SpecGui   *)
(* the custom-configuration handlers of src/script/main.py, and            *)
(* SpecDesktopSaver the original twelve-category script src/DesktopSaver.py *)
(* with the lists of src/filenames.py.                                     *)
(***************************************************************************)
EXTENDS Integers, Sequences, FiniteSets, TLC

\* ---- bounds -------------------------------------------------------------
MaxEntries == 2      \* top-level entries put into source by Init
MaxRuns    == 2      \* successive runs of the organizer

\* ---- names --------------------------------------------------------------
n_desk  == <<"d","e","s","k">>
n_docs  == <<"d","o","c","s">>
n_out   == <<"o","u","t">>
n_aJPG  == <<"a",".","J","P","G">>
n_cxyz  == <<"c",".","x","y","z">>
n_hjpg  == <<".","h",".","j","p","g">>
n_kgif  == <<".","k",".","g","i","f">>
n_pdf   == <<"p","d","f">>
n_ljpg  == <<"l",".","j","p","g">>
n_Old   == <<"O","l","d">>
n_hid   == <<".","t">>
n_sub   == <<"s","u","b">>
n_x     == <<"x">>
n_y     == <<"y">>
n_Img   == <<"I","m","g">>
n_Doc   == <<"D","o","c">>

\* ---- str.lower, str.split('.')[-1], str.startswith('.') -------------------
Upper == <<"A","B","C","D","E","F","G","H","I","J","K","L","M",
           "N","O","P","Q","R","S","T","U","V","W","X","Y","Z">>
LowerAZ == <<"a","b","c","d","e","f","g","h","i","j","k","l","m",
             "n","o","p","q","r","s","t","u","v","w","x","y","z">>

lower_char(c) ==
    IF \E i \in 1..26 : Upper[i] = c
    THEN LowerAZ[CHOOSE i \in 1..26 : Upper[i] = c]
    ELSE c

lower(s) == [i \in 1..Len(s) |-> lower_char(s[i])]

\* index of the last '.', 0 if there is none
last_dot(s) ==
    IF \E i \in 1..Len(s) : s[i] = "."
    THEN CHOOSE i \in 1..Len(s) : s[i] = "." /\ \A j \in (i+1)..Len(s) : s[j] # "."
    ELSE 0

\* item.split('.')[-1]
split_last(s) == SubSeq(s, last_dot(s) + 1, Len(s))

\* faulty variant: a name without '.' has the empty extension
file_extension_of_splitext(item) ==
    IF last_dot(item) = 0 THEN << >> ELSE lower(split_last(item))

\* faulty variant: the extension is taken as written, without .lower()
file_extension_of_m(item) == split_last(item)

file_extension_of(item) == lower(split_last(item))

startswith_dot(item) == Len(item) > 0 /\ item[1] = "."

InSeq(x, s) == \E i \in 1..Len(s) : s[i] = x

\* ---- the filesystem -------------------------------------------------------
Node(p, k) == [path |-> p, kind |-> k, id |-> p]
NewDir(p)  == [path |-> p, kind |-> "dir", id |-> <<>>]

join(p, name) == Append(p, name)
dirname(p)    == SubSeq(p, 1, Len(p) - 1)
basename(p)   == p[Len(p)]

IsPrefix(p, q) == Len(p) <= Len(q) /\ SubSeq(q, 1, Len(p)) = p

exists(f, p) == p = <<>> \/ \E n \in f : n.path = p
isdir(f, p)  == p = <<>> \/ \E n \in f : n.path = p /\ n.kind = "dir"
isfile(f, p) == \E n \in f : n.path = p /\ n.kind = "file"

\* the names os.listdir(p) returns, as a set
listdir(f, p) == { basename(n.path) : n \in { m \in f : Len(m.path) = Len(p) + 1 /\ IsPrefix(p, m.path) } }

\* every order os.listdir may return the names in
Orders(S) ==
    { s \in [1..Cardinality(S) -> S] : \A i, j \in 1..Cardinality(S) : s[i] = s[j] => i = j }

\* faulty variant: every segment is created on its own, not below its parent
makedirs_flat(f, p, exist_ok, failAt) ==
    LET missing == { k \in 1..Len(p) : ~exists(f, SubSeq(p, 1, k)) }
        blocked == \E k \in 1..(Len(p) - 1) : exists(f, SubSeq(p, 1, k)) /\ ~isdir(f, SubSeq(p, 1, k))
        leafErr == exists(f, p) /\ ~(exist_ok /\ isdir(f, p))
        fault   == failAt \in missing
        made    == IF blocked THEN {}
                   ELSE { k \in missing : ~fault \/ k < failAt }
    IN  [ok |-> ~blocked /\ ~leafErr /\ ~fault,
         fs |-> f \cup { NewDir(<< p[k] >>) : k \in made }]

\* faulty variant: a failure of the creation is swallowed
makedirs_swallow(f, p, exist_ok, failAt) ==
    LET missing == { k \in 1..Len(p) : ~exists(f, SubSeq(p, 1, k)) }
        blocked == \E k \in 1..(Len(p) - 1) : exists(f, SubSeq(p, 1, k)) /\ ~isdir(f, SubSeq(p, 1, k))
        fault   == failAt \in missing
        made    == IF blocked THEN {}
                   ELSE { k \in missing : ~fault \/ k < failAt }
    IN  [ok |-> TRUE,
         fs |-> f \cup { NewDir(SubSeq(p, 1, k)) : k \in made }]

\* os.makedirs(p): creates the missing directories of p from the top down.
\* failAt = k > 0: the mkdir of the k-th segment fails (permission denied)
\* if that segment has to be created.  exist_ok is the keyword of the same name.
makedirs(f, p, exist_ok, failAt) ==
    LET missing == { k \in 1..Len(p) : ~exists(f, SubSeq(p, 1, k)) }
        blocked == \E k \in 1..(Len(p) - 1) : exists(f, SubSeq(p, 1, k)) /\ ~isdir(f, SubSeq(p, 1, k))
        leafErr == exists(f, p) /\ ~(exist_ok /\ isdir(f, p))
        fault   == failAt \in missing
        made    == IF blocked THEN {}
                   ELSE { k \in missing : ~fault \/ k < failAt }
    IN  [ok |-> ~blocked /\ ~leafErr /\ ~fault,
         fs |-> f \cup { NewDir(SubSeq(p, 1, k)) : k \in made }]

\* faulty variant: what lies below a moved directory is put next to it
rename_flat(f, src, dst) ==
    LET srcDir  == isdir(f, src)
        ok      == /\ exists(f, src) /\ src # <<>>
                   /\ isdir(f, dirname(dst))
                   /\ ~IsPrefix(src, dst) \/ src = dst
                   /\ srcDir => ~exists(f, dst) \/ src = dst
                   /\ ~srcDir => ~isdir(f, dst)
        moved   == { n \in f : IsPrefix(src, n.path) }
        kept    == { n \in f : ~IsPrefix(src, n.path) /\ n.path # dst }
    IN  [ok |-> ok,
         fs |-> IF ok
                THEN kept \cup { [n EXCEPT !.path = IF n.path = src THEN dst
                                                    ELSE join(dirname(dst), basename(n.path))] : n \in moved }
                ELSE f,
         to |-> dst]

\* os.rename(src, dst) on a path that shutil.move has resolved
rename(f, src, dst) ==
    LET srcDir  == isdir(f, src)
        ok      == /\ exists(f, src) /\ src # <<>>
                   /\ isdir(f, dirname(dst))
                   /\ ~IsPrefix(src, dst) \/ src = dst
                   /\ srcDir => ~exists(f, dst) \/ src = dst
                   /\ ~srcDir => ~isdir(f, dst)
        moved   == { n \in f : IsPrefix(src, n.path) }
        kept    == { n \in f : ~IsPrefix(src, n.path) /\ n.path # dst }
    IN  [ok |-> ok,
         fs |-> IF ok
                THEN kept \cup { [n EXCEPT !.path = dst \o SubSeq(n.path, Len(src) + 1, Len(n.path))] : n \in moved }
                ELSE f,
         to |-> dst]

\* faulty variant: the moved tree is copied and the original is left behind
move_copy(f, src, dst, fault) ==
    LET real_dst == IF isdir(f, dst) THEN join(dst, basename(src)) ELSE dst
    IN  IF fault \/ (isdir(f, dst) /\ exists(f, real_dst))
        THEN [ok |-> FALSE, fs |-> f, to |-> real_dst]
        ELSE [ok |-> rename(f, src, real_dst).ok,
              fs |-> rename(f, src, real_dst).fs \cup { n \in f : IsPrefix(src, n.path) },
              to |-> real_dst]

\* shutil.move(src, dst): into dst when dst is an existing directory,
\* otherwise onto dst.  fault: the operation is refused (permission denied).
move(f, src, dst, fault) ==
    LET real_dst == IF isdir(f, dst) THEN join(dst, basename(src)) ELSE dst
    IN  IF fault \/ (isdir(f, dst) /\ exists(f, real_dst))
        THEN [ok |-> FALSE, fs |-> f, to |-> real_dst]
        ELSE rename(f, src, real_dst)

\* os.rmdir(p)
rmdir(f, p, fault) ==
    LET ok == ~fault /\ isdir(f, p) /\ listdir(f, p) = {}
    IN  [ok |-> ok, fs |-> IF ok THEN { n \in f : n.path # p } ELSE f]


\* ---- inputs ---------------------------------------------------------------
\* file_types.json as json.load returns it: the categories in file order,
\* each with its "extensions" list (any case, no leading dot)
Table1 == << [file_type |-> n_Img, extensions |-> << <<"J","p","g">>, <<"g","i","f">> >>],
             [file_type |-> n_Doc, extensions |-> << <<"p","d","f">>, <<"j","p","g">> >>] >>
Table2 == << [file_type |-> n_Doc, extensions |-> << <<"j","p","g">> >>],
             [file_type |-> n_Img, extensions |-> << <<"J","p","g">>, <<"g","i","f">> >>] >>
Tables == { Table1, Table2 }

\* skip_files / skip_folders (ignore_files / ignore_folders in the GUI)
Policies ==
    { [skip_files |-> << n_x >>,          skip_folders |-> << n_sub >>],
      [skip_files |-> << n_pdf >>,        skip_folders |-> << n_Old, n_out >>],
      [skip_files |-> << n_pdf, n_Old >>, skip_folders |-> << n_aJPG >>] }

\* what may lie at the top level of source: [name, kind, kids], kids being
\* the nodes below a directory as (relative path, kind)
Candidates ==
    { [name |-> n_aJPG, kind |-> "file",  kids |-> {}],
      [name |-> n_cxyz, kind |-> "file",  kids |-> {}],
      [name |-> n_hjpg, kind |-> "file",  kids |-> {}],
      [name |-> n_pdf,  kind |-> "file",  kids |-> {}],
      [name |-> n_ljpg, kind |-> "other", kids |-> {}],
      [name |-> n_hid,  kind |-> "dir",   kids |-> { << <<n_x>>, "file" >> }],
      [name |-> n_Old,  kind |-> "dir",
       kids |-> { << <<n_x>>, "file" >>, << <<n_kgif>>, "file" >>,
                  << <<n_sub>>, "dir" >>, << <<n_sub, n_y>>, "file" >> }] }

src_root == << n_desk >>
dst_out  == << n_docs, n_out >>
dst_in   == << n_desk, n_out >>

\* destination and what exists around it before the first run
DestSetups ==
    { [destination |-> dst_out, pre |-> {}],
      [destination |-> dst_out, pre |-> { Node(<<n_docs>>, "dir"), Node(dst_out, "dir") }],
      [destination |-> dst_out, pre |-> { Node(<<n_docs>>, "dir"), Node(dst_out, "file") }],
      [destination |-> dst_out,
       pre |-> { Node(<<n_docs>>, "dir"), Node(dst_out, "dir"),
                 Node(join(dst_out, n_Old), "dir"),
                 Node(join(join(dst_out, n_Old), n_sub), "dir"),
                 Node(join(join(dst_out, n_Old), n_x), "file"),
                 Node(join(dst_out, n_Img), "dir"),
                 Node(join(join(dst_out, n_Img), n_aJPG), "dir") }],
      [destination |-> dst_in, pre |-> {}] }

EntryNodes(c) ==
    { Node(join(src_root, c.name), c.kind) }
      \cup { Node(join(src_root, c.name) \o k[1], k[2]) : k \in c.kids }

SourceTree(E) == { Node(src_root, "dir") } \cup UNION { EntryNodes(c) : c \in E }

\* ---- state ----------------------------------------------------------------
VARIABLES
    fs,            \* the filesystem
    fs0,           \* the filesystem when the current run was started
    source, destination, file_types, skip_files, skip_folders,   \* arguments of move_files
    pc,            \* "idle", "loop", "flatten", "done", "aborted", "rejected"
    run,           \* number of the current run
    prev,          \* how the previous run ended and what it logged
    listing, idx,  \* os.listdir(source) and the position of the for loop in it
    sub_listing, sub_idx,   \* os.listdir(full_path) and the position of the inner loop
    out,           \* what the run has printed / logged
    err,           \* the exception that ended the run, "" if none
    custom_json_path,   \* self.custom_json_path of the GUI, "None" or a path
    allowed_sources,    \* self.allowed_sources of the GUI: key |-> source path
    json_files,    \* the JSON files on disk: path -> what open and json.load find
    messages,      \* the message boxes the GUI has shown
    calls,         \* number of GUI handler calls so far
    w              \* position in filenames.order (twelve-category organizer)

params == << source, destination, file_types, skip_files, skip_folders >>
gui == << custom_json_path, allowed_sources, json_files, messages, calls >>

\* self.user = getpass.getuser(); a path is the sequence of its segments
user == "u"
DesktopPath   == << "Users", user, "Desktop" >>
DownloadsPath == << "Users", user, "Downloads" >>

\* self.allowed_sources = {'Desktop': ..., 'Downloads': ...}
default_sources ==
    [k \in { "Desktop", "Downloads" } |-> IF k = "Desktop" THEN DesktopPath ELSE DownloadsPath]
vars == << fs, fs0, source, destination, file_types, skip_files, skip_folders,
           pc, run, prev, listing, idx, sub_listing, sub_idx, out, err,
           custom_json_path, allowed_sources, json_files, messages, calls, w >>

\* self.default_json_path
default_json_path == "file_types.json"

\* what a JSON file holds: a document json.load accepts, or text it rejects;
\* a path that cannot be opened has kind "missing"
Json(v)  == [kind |-> "json", value |-> v]
NotJson  == [kind |-> "text", value |-> << >>]
NoFile   == [kind |-> "missing", value |-> << >>]

Init ==
    \E d \in DestSetups, pol \in Policies, t \in Tables,
       E \in { S \in SUBSET Candidates : Cardinality(S) <= MaxEntries } :
        /\ fs = SourceTree(E) \cup d.pre
        /\ fs0 = fs
        /\ source = src_root
        /\ destination = d.destination
        /\ file_types = t
        /\ skip_files = pol.skip_files
        /\ skip_folders = pol.skip_folders
        /\ pc = "idle"
        /\ run = 1
        /\ prev = [pc |-> "none", out |-> << >>]
        /\ listing = << >>
        /\ idx = 1
        /\ sub_listing = << >>
        /\ sub_idx = 1
        /\ out = << >>
        /\ err = ""
        /\ custom_json_path = "None"
        /\ allowed_sources = default_sources
        /\ json_files = [p \in {default_json_path} |-> Json(t)]
        /\ messages = << >>
        /\ calls = 0
        /\ w = 0

\* ---- the run ---------------------------------------------------------------
item      == listing[idx]
full_path == join(source, item)
folder_dest == join(destination, item)
sub_item  == sub_listing[sub_idx]
sub_item_path == join(full_path, sub_item)

Log(kind, name, where) == Append(out, [kind |-> kind, item |-> name, to |-> where])

\* an exception leaves move_files: the run ends there
Raise(e, f) ==
    /\ pc' = "aborted"
    /\ err' = e
    /\ fs' = f
    /\ UNCHANGED << listing, idx, sub_listing, sub_idx, out >>

\* the for loop over os.listdir(source) is entered
EnterLoop(f, lsFault) ==
    IF lsFault \/ ~isdir(f, source)
    THEN Raise("SourceUnreadable", f)
    ELSE /\ \E order \in Orders(listdir(f, source)) : listing' = order
         /\ idx' = 1
         /\ pc' = "loop"
         /\ fs' = f
         /\ UNCHANGED << sub_listing, sub_idx, out, err >>

\* move_files of the script: the destination is ensured, then source listed
move_files ==
    /\ pc = "idle"
    /\ fs0' = fs
    /\ UNCHANGED << params, gui, w, run, prev >>
    /\ \E failAt \in 0..Len(destination), lsFault \in BOOLEAN :
         LET mk == IF ~exists(fs, destination)
                   THEN makedirs(fs, destination, FALSE, failAt)
                   ELSE [ok |-> TRUE, fs |-> fs]
         IN  IF ~mk.ok
             THEN Raise("DestinationUnwritable", mk.fs)
             ELSE EnterLoop(mk.fs, lsFault)

\* organize_files of the GUI: os.makedirs(destination, exist_ok=True), the
\* combobox is read, and move_files of the GUI lists the source
organize_files ==
    /\ pc = "idle"
    /\ fs0' = fs
    /\ UNCHANGED << params, gui, w, run, prev >>
    /\ \E failAt \in 0..Len(destination), lsFault \in BOOLEAN, selected \in BOOLEAN :
         LET mk == makedirs(fs, destination, TRUE, failAt)
         IN  IF ~mk.ok
             THEN Raise("DestinationUnwritable", mk.fs)
             ELSE IF ~selected
             THEN /\ pc' = "rejected"
                  /\ fs' = mk.fs
                  /\ out' = Log("InvalidSource", << >>, << >>)
                  /\ UNCHANGED << listing, idx, sub_listing, sub_idx, err >>
             ELSE EnterLoop(mk.fs, lsFault)


\* ---- one entry of the listing ----------------------------------------------
\* [ext.lower() for ext in data["extensions"]]
lowered(exts) == [i \in 1..Len(exts) |-> lower(exts[i])]

\* faulty variant: no break, the last category that lists ext wins
RECURSIVE scan_last(_, _, _)
scan_last(table, ext, k) ==
    IF k > Len(table) THEN 0
    ELSE IF scan_last(table, ext, k + 1) # 0 THEN scan_last(table, ext, k + 1)
    ELSE IF InSeq(ext, lowered(table[k].extensions)) THEN k
    ELSE 0

\* for file_type, data in file_types.items(): ... break
\* the index of the first category from k on that lists ext, 0 if none does
RECURSIVE scan(_, _, _)
scan(table, ext, k) ==
    IF k > Len(table) THEN 0
    ELSE IF InSeq(ext, lowered(table[k].extensions)) THEN k
    ELSE scan(table, ext, k + 1)

\* faulty variant: a file that no category lists goes to the first category
classify_catchall(table, name) ==
    IF scan(table, file_extension_of(name), 1) = 0 THEN 1
    ELSE scan(table, file_extension_of(name), 1)

classify(table, name) == scan(table, file_extension_of(name), 1)

\* faulty variant: the skip_folders test is missing
folder_skipped_never(f, name) == FALSE

\* if os.path.isdir(full_path) and item in skip_folders
folder_skipped(f, name) == isdir(f, join(source, name)) /\ InSeq(name, skip_folders)

\* faulty variant: hidden names are not skipped
file_skipped_listonly(name) == InSeq(name, skip_files)

\* if item in skip_files or item.startswith('.')
file_skipped(name) == InSeq(name, skip_files) \/ startswith_dot(name)

skipped(f, name) == folder_skipped(f, name) \/ file_skipped(name)

InLoop == pc = "loop" /\ idx <= Len(listing)

Continue ==
    /\ idx' = idx + 1
    /\ pc' = "loop"
    /\ UNCHANGED << listing, sub_listing, sub_idx, err >>

SkipFolder ==
    /\ InLoop
    /\ folder_skipped(fs, item)
    /\ out' = Log("SkippingFolder", item, << >>)
    /\ Continue
    /\ UNCHANGED << fs, fs0, params, gui, w, run, prev >>

SkipFile ==
    /\ InLoop
    /\ ~folder_skipped(fs, item)
    /\ file_skipped(item)
    /\ out' = Log("SkippingFile", item, << >>)
    /\ Continue
    /\ UNCHANGED << fs, fs0, params, gui, w, run, prev >>

\* a directory: its destination folder is ensured and its children listed
FlattenBegin ==
    /\ InLoop
    /\ ~skipped(fs, item)
    /\ isdir(fs, full_path)
    /\ UNCHANGED << fs0, params, gui, w, run, prev >>
    /\ \E failAt \in 0..Len(folder_dest), lsFault \in BOOLEAN :
         LET mk == IF ~exists(fs, folder_dest)
                   THEN makedirs(fs, folder_dest, FALSE, failAt)
                   ELSE [ok |-> TRUE, fs |-> fs]
         IN  IF ~mk.ok THEN Raise("MakedirsFailed", mk.fs)
             ELSE IF lsFault THEN Raise("ListdirFailed", mk.fs)
             ELSE /\ \E order \in Orders(listdir(mk.fs, full_path)) : sub_listing' = order
                  /\ sub_idx' = 1
                  /\ pc' = "flatten"
                  /\ fs' = mk.fs
                  /\ UNCHANGED << listing, idx, out, err >>

\* faulty variant: the skip policy is applied to the children as well
FlattenChild_policy ==
    /\ pc = "flatten"
    /\ sub_idx <= Len(sub_listing)
    /\ UNCHANGED << fs0, params, gui, w, run, prev >>
    /\ \E fault \in BOOLEAN :
         LET mv == move(fs, sub_item_path, join(folder_dest, sub_item), fault)
         IN  IF file_skipped(sub_item) \/ InSeq(sub_item, skip_folders)
             THEN /\ sub_idx' = sub_idx + 1
                  /\ UNCHANGED << fs, out, pc, listing, idx, sub_listing, err >>
             ELSE IF ~mv.ok THEN Raise("MoveFailed", fs)
             ELSE /\ fs' = mv.fs
                  /\ out' = Log("Moved", sub_item, folder_dest)
                  /\ sub_idx' = sub_idx + 1
                  /\ UNCHANGED << pc, listing, idx, sub_listing, err >>

\* one child of the directory is moved
FlattenChild ==
    /\ pc = "flatten"
    /\ sub_idx <= Len(sub_listing)
    /\ UNCHANGED << fs0, params, gui, w, run, prev >>
    /\ \E fault \in BOOLEAN :
         LET mv == move(fs, sub_item_path, join(folder_dest, sub_item), fault)
         IN  IF ~mv.ok THEN Raise("MoveFailed", fs)
             ELSE /\ fs' = mv.fs
                  /\ out' = Log("Moved", sub_item, folder_dest)
                  /\ sub_idx' = sub_idx + 1
                  /\ UNCHANGED << pc, listing, idx, sub_listing, err >>

\* faulty variant: the removal is attempted before the last child is moved
FlattenEnd_early ==
    /\ pc = "flatten"
    /\ sub_idx >= Len(sub_listing)
    /\ UNCHANGED << fs0, params, gui, w, run, prev >>
    /\ \E fault \in BOOLEAN :
         LET rm == rmdir(fs, full_path, fault)
         IN  /\ fs' = rm.fs
             /\ out' = Log(IF rm.ok THEN "DeletedFolder" ELSE "FailedToDelete", item, << >>)
             /\ Continue

\* faulty variant: no try/except around os.rmdir
FlattenEnd_noexcept ==
    /\ pc = "flatten"
    /\ sub_idx > Len(sub_listing)
    /\ UNCHANGED << fs0, params, gui, w, run, prev >>
    /\ \E fault \in BOOLEAN :
         LET rm == rmdir(fs, full_path, fault)
         IN  IF ~rm.ok THEN Raise("RmdirFailed", fs)
             ELSE /\ fs' = rm.fs
                  /\ out' = Log("DeletedFolder", item, << >>)
                  /\ Continue

\* try: os.rmdir(full_path) except OSError
FlattenEnd ==
    /\ pc = "flatten"
    /\ sub_idx > Len(sub_listing)
    /\ UNCHANGED << fs0, params, gui, w, run, prev >>
    /\ \E fault \in BOOLEAN :
         LET rm == rmdir(fs, full_path, fault)
         IN  /\ fs' = rm.fs
             /\ out' = Log(IF rm.ok THEN "DeletedFolder" ELSE "FailedToDelete", item, << >>)
             /\ Continue

\* faulty variant: the move sits in the else branch of "if not os.path.exists(file_type_dest)"
MoveFile_else ==
    /\ InLoop
    /\ ~skipped(fs, item)
    /\ ~isdir(fs, full_path)
    /\ isfile(fs, full_path)
    /\ classify(file_types, item) # 0
    /\ UNCHANGED << fs0, params, gui, w, run, prev >>
    /\ \E failAt \in 0..(Len(destination) + 1), fault \in BOOLEAN :
         LET file_type == file_types[classify(file_types, item)].file_type
             file_type_dest == join(destination, file_type)
             mk == makedirs(fs, file_type_dest, FALSE, failAt)
             mv == move(fs, full_path, join(file_type_dest, item), fault)
         IN  IF ~exists(fs, file_type_dest)
             THEN IF ~mk.ok THEN Raise("MakedirsFailed", mk.fs)
                  ELSE /\ fs' = mk.fs
                       /\ out' = out
                       /\ Continue
             ELSE IF ~mv.ok THEN Raise("MoveFailed", fs)
             ELSE /\ fs' = mv.fs
                  /\ out' = Log("Moved", item, file_type_dest)
                  /\ Continue

\* a regular file whose extension some category lists
MoveFile ==
    /\ InLoop
    /\ ~skipped(fs, item)
    /\ ~isdir(fs, full_path)
    /\ isfile(fs, full_path)
    /\ classify(file_types, item) # 0
    /\ UNCHANGED << fs0, params, gui, w, run, prev >>
    /\ \E failAt \in 0..(Len(destination) + 1), fault \in BOOLEAN :
         LET file_type == file_types[classify(file_types, item)].file_type
             file_type_dest == join(destination, file_type)
             mk == IF ~exists(fs, file_type_dest)
                   THEN makedirs(fs, file_type_dest, FALSE, failAt)
                   ELSE [ok |-> TRUE, fs |-> fs]
             mv == move(mk.fs, full_path, join(file_type_dest, item), fault)
         IN  IF ~mk.ok THEN Raise("MakedirsFailed", mk.fs)
             ELSE IF ~mv.ok THEN Raise("MoveFailed", mk.fs)
             ELSE /\ fs' = mv.fs
                  /\ out' = Log("Moved", item, file_type_dest)
                  /\ Continue

\* a regular file whose extension no category lists: the scan ends without a move
NoMatch ==
    /\ InLoop
    /\ ~skipped(fs, item)
    /\ ~isdir(fs, full_path)
    /\ isfile(fs, full_path)
    /\ classify(file_types, item) = 0
    /\ Continue
    /\ UNCHANGED << fs, fs0, params, gui, w, run, prev, out >>

\* neither os.path.isdir nor os.path.isfile
NeitherFileNorDir ==
    /\ InLoop
    /\ ~skipped(fs, item)
    /\ ~isdir(fs, full_path)
    /\ ~isfile(fs, full_path)
    /\ Continue
    /\ UNCHANGED << fs, fs0, params, gui, w, run, prev, out >>

\* the listing is exhausted: move_files returns
Return ==
    /\ pc = "loop"
    /\ idx > Len(listing)
    /\ pc' = "done"
    /\ UNCHANGED << fs, fs0, params, gui, w, run, prev, listing, idx, sub_listing, sub_idx, out, err >>

\* the organizer is started again on the same arguments after a run that returned
RunAgain ==
    /\ pc = "done"
    /\ run < MaxRuns
    /\ run' = run + 1
    /\ prev' = [pc |-> pc, out |-> out]
    /\ fs0' = fs
    /\ pc' = "idle"
    /\ listing' = << >>
    /\ idx' = 1
    /\ sub_listing' = << >>
    /\ sub_idx' = 1
    /\ out' = << >>
    /\ err' = ""
    /\ UNCHANGED << fs, params, gui, w >>

Next ==
    \/ move_files
    \/ organize_files
    \/ SkipFolder
    \/ SkipFile
    \/ FlattenBegin
    \/ FlattenChild
    \/ FlattenEnd
    \/ MoveFile
    \/ NoMatch
    \/ NeitherFileNorDir
    \/ Return
    \/ RunAgain

Spec == Init /\ [][Next]_vars

\* ---- the GUI: the active configuration -----------------------------------------
MaxCalls == 3        \* handler calls in one session of the GUI

\* the paths the file dialog may return besides "" (dialog cancelled)
user_files == { "a.json", "b.json", "c.json", "d.json" }

\* def load_file_types(self): the default file is read again at every call;
\* ok is FALSE where the code shows an error box and calls sys.exit()
load_file_types(files) ==
    IF files[default_json_path].kind = "json"
    THEN [ok |-> TRUE, value |-> files[default_json_path].value]
    ELSE [ok |-> FALSE, value |-> << >>]

engine == << fs, fs0, source, destination,
             run, prev, listing, idx, sub_listing, sub_idx, out, err, w >>

\* self.ignore_files and self.ignore_folders, the lists organize_files
\* passes to move_files as skip_files and skip_folders
ignore_lists == << skip_files, skip_folders >>

\* get_ignore_json_path()
ignore_json_path == "ignore.json"

\* default_ignore_files = [".DS_Store"]
default_ignore_files == << <<".","D","S","_","S","t","o","r","e">> >>
\* default_ignore_folders = ["DeskSaveApp", "DeskSave"]
default_ignore_folders == << <<"D","e","s","k","S","a","v","e","A","p","p">>, <<"D","e","s","k","S","a","v","e">> >>

\* a JSON object of ignore.json: each key holds the set of its values, empty
\* when the key is absent
IgnoreDict(files, folders) == [ignore_files |-> files, ignore_folders |-> folders]

\* ignore_data.get(key, default)
get(present, default) == IF present = {} THEN default ELSE CHOOSE v \in present : TRUE

\* def load_ignore_json(self): the defaults when the file is missing or is
\* not valid JSON, else the two keys of the object, each with its default
load_ignore_json(files) ==
    IF files[ignore_json_path].kind = "json"
    THEN << get(files[ignore_json_path].value.ignore_files, default_ignore_files),
            get(files[ignore_json_path].value.ignore_folders, default_ignore_folders) >>
    ELSE << default_ignore_files, default_ignore_folders >>

\* str.strip(): leading and trailing blanks are dropped
RECURSIVE strip(_)
strip(t) ==
    IF t = << >> THEN t
    ELSE IF t[1] = " " THEN strip(Tail(t))
    ELSE IF t[Len(t)] = " " THEN strip(SubSeq(t, 1, Len(t) - 1))
    ELSE t

\* str.split(','): the pieces between the commas, empty pieces included
RECURSIVE split_comma(_)
split_comma(t) ==
    IF \E i \in 1..Len(t) : t[i] = ","
    THEN LET i == CHOOSE k \in 1..Len(t) : t[k] = "," /\ \A j \in 1..(k - 1) : t[j] # ","
         IN  << SubSeq(t, 1, i - 1) >> \o split_comma(SubSeq(t, i + 1, Len(t)))
    ELSE << t >>

\* entry.get().split(',') if entry.get() else [], then item.strip() for each
entry_list(t) ==
    IF t = << >> THEN << >>
    ELSE [i \in 1..Len(split_comma(t)) |-> strip(split_comma(t)[i])]

\* what the user may have typed into the two entry fields
Entries ==
    { [files |-> << >>, folders |-> << >>],
      [files |-> <<"p","d","f",","," ","O","l","d">>, folders |-> <<"a",".","J","P","G">>],
      [files |-> <<".","D","S","_","S","t","o","r","e">>, folders |-> <<"D","e","s","k","S","a","v","e","A","p","p",",","D","e","s","k","S","a","v","e">>] }

\* ignore.json as the constructor may find it
IgnoreFiles0 ==
    { NoFile, NotJson,
      Json(IgnoreDict({ << n_pdf >> }, { << n_Old, n_out >> })),
      Json(IgnoreDict({ << n_pdf >> }, {})) }

\* the application after __init__: no custom path, the default file loaded
InitGui ==
    \E t \in Tables, u \in Tables, ig \in IgnoreFiles0 :
        /\ json_files = [p \in {default_json_path, ignore_json_path} \cup user_files |->
                           CASE p = default_json_path -> Json(t)
                             [] p = ignore_json_path -> ig
                             [] p = "a.json" -> Json(u)
                             [] p = "b.json" -> Json(<< >>)
                             [] p = "c.json" -> NotJson
                             [] OTHER -> NoFile]
        /\ custom_json_path = "None"
        /\ allowed_sources = default_sources
        /\ file_types = load_file_types(json_files).value
        /\ messages = << >>
        /\ calls = 0
        /\ fs = { Node(src_root, "dir") }
        /\ fs0 = fs
        /\ source = src_root
        /\ destination = dst_out
        /\ skip_files = load_ignore_json(json_files)[1]
        /\ skip_folders = load_ignore_json(json_files)[2]
        /\ pc = "idle"
        /\ run = 1
        /\ prev = [pc |-> "none", out |-> << >>]
        /\ listing = << >>
        /\ idx = 1
        /\ sub_listing = << >>
        /\ sub_idx = 1
        /\ out = << >>
        /\ err = ""
        /\ w = 0

\* messagebox.showinfo / messagebox.showerror
Show(text) == messages' = Append(messages, text)

\* def upload_custom_config(self)
upload_custom_config ==
    /\ pc = "idle"
    /\ calls < MaxCalls
    /\ calls' = calls + 1
    /\ \E file_path \in {""} \cup user_files :
         IF file_path = ""
         THEN UNCHANGED << custom_json_path, file_types, messages >>
         ELSE IF json_files[file_path].kind = "json"
         THEN /\ custom_json_path' = file_path
              /\ file_types' = json_files[file_path].value
              /\ Show("Custom configuration loaded successfully!")
         ELSE IF json_files[file_path].kind = "text"
         THEN /\ Show("The selected file is not a valid JSON configuration.")
              /\ UNCHANGED << custom_json_path, file_types >>
         ELSE /\ Show("An error occurred")
              /\ UNCHANGED << custom_json_path, file_types >>
    /\ UNCHANGED << json_files, pc, ignore_lists, allowed_sources, engine >>

\* faulty variant: the default file is not loaded again
remove_custom_config_keep ==
    /\ pc = "idle"
    /\ calls < MaxCalls
    /\ calls' = calls + 1
    /\ IF custom_json_path # "None"
       THEN /\ custom_json_path' = "None"
            /\ Show("Reverted to the default configuration.")
            /\ UNCHANGED << file_types, pc >>
       ELSE /\ Show("No custom configuration to remove.")
            /\ UNCHANGED << custom_json_path, file_types, pc >>
    /\ UNCHANGED << json_files, ignore_lists, allowed_sources, engine >>

\* def remove_custom_config(self)
remove_custom_config ==
    /\ pc = "idle"
    /\ calls < MaxCalls
    /\ calls' = calls + 1
    /\ IF custom_json_path # "None"
       THEN LET loaded == load_file_types(json_files)
            IN  /\ custom_json_path' = "None"
                /\ IF loaded.ok
                   THEN /\ file_types' = loaded.value
                        /\ Show("Reverted to the default configuration.")
                        /\ pc' = pc
                   ELSE /\ Show("Configuration file not found or invalid.")
                        /\ pc' = "exited"
                        /\ UNCHANGED file_types
       ELSE /\ Show("No custom configuration to remove.")
            /\ UNCHANGED << custom_json_path, file_types, pc >>
    /\ UNCHANGED << json_files, ignore_lists, allowed_sources, engine >>

\* json.dump into ignore.json.  fault "open": the file cannot be opened for
\* writing and stays as it is; fault "write": it was opened, so truncated,
\* and the dump failed, which leaves text that is not valid JSON
dump_ignore(files, lists, fault) ==
    IF fault = "open" THEN files
    ELSE IF fault = "write" THEN [files EXCEPT ![ignore_json_path] = NotJson]
    ELSE [files EXCEPT ![ignore_json_path] = Json(IgnoreDict({ lists[1] }, { lists[2] }))]

WriteFaults == { "none", "open", "write" }

\* f"An error occurred: {e}", e the exception of the failed open or dump
save_error(fault) ==
    IF fault = "open" THEN "An error occurred: open" ELSE "An error occurred: write"

\* def save_ignore_data() of ignore_data
save_ignore_data ==
    /\ pc = "idle"
    /\ calls < MaxCalls
    /\ calls' = calls + 1
    /\ \E e \in Entries, fault \in WriteFaults :
         /\ skip_files' = entry_list(e.files)
         /\ skip_folders' = entry_list(e.folders)
         /\ json_files' = dump_ignore(json_files, << skip_files', skip_folders' >>, fault)
         /\ IF fault = "none"
            THEN Show("Ignore data updated successfully!")
            ELSE Show(save_error(fault))
    /\ UNCHANGED << custom_json_path, file_types, pc, allowed_sources, engine >>

\* def revert_ignore_to_default() of ignore_data
revert_ignore_to_default ==
    /\ pc = "idle"
    /\ calls < MaxCalls
    /\ calls' = calls + 1
    /\ \E confirmation \in BOOLEAN, fault \in WriteFaults :
         IF confirmation
         THEN /\ skip_files' = default_ignore_files
              /\ skip_folders' = default_ignore_folders
              /\ json_files' = dump_ignore(json_files,
                                           << default_ignore_files, default_ignore_folders >>, fault)
              /\ IF fault = "none"
                 THEN Show("The ignore settings have been reset to the default values.")
                 ELSE Show("An error occurred while reverting to the default settings")
         ELSE UNCHANGED << ignore_lists, json_files, messages >>
    /\ UNCHANGED << custom_json_path, file_types, pc, allowed_sources, engine >>

\* what filedialog.askdirectory may return: << >> when the dialog is
\* cancelled, else the folder the user selected
Folders ==
    { << >>,
      DesktopPath,
      << "Users", user, "Documents" >>,
      << "Volumes", "B", "Desktop" >> }

\* def add_custom_source(self)
add_custom_source ==
    /\ pc = "idle"
    /\ calls < MaxCalls
    /\ calls' = calls + 1
    /\ \E new_source_path \in Folders :
         IF new_source_path = << >>
         THEN UNCHANGED << allowed_sources, messages >>
         ELSE LET source_name == basename(new_source_path)
              IN  IF \E k \in DOMAIN allowed_sources : allowed_sources[k] = new_source_path
                  THEN /\ Show("This source path is already listed.")
                       /\ UNCHANGED allowed_sources
                  ELSE /\ allowed_sources' =
                            [k \in DOMAIN allowed_sources \cup { source_name } |->
                                IF k = source_name THEN new_source_path ELSE allowed_sources[k]]
                       /\ Show("Source Added")
    /\ UNCHANGED << custom_json_path, file_types, json_files, pc, ignore_lists, engine >>

NextGui ==
    \/ add_custom_source
    \/ upload_custom_config
    \/ remove_custom_config
    \/ save_ignore_data
    \/ revert_ignore_to_default

SpecGui == InitGui /\ [][NextGui]_vars

\* ---- the original twelve-category organizer (DesktopSaver.py) ----------------
\* filenames.py: the categories in the order of filenames.order, each with
\* the list its function returns
filenames ==
   << [name |-> <<"c","o","m","p","r","e","s","s","e","d">>,
       extensions |-> << <<"r","a","r">>, <<"z","i","p">>, <<"7","z">>, <<"a","r","j">>,
                          <<"d","e","b">>, <<"p","k","g">>, <<"r","p","m">>, <<"z">> >>],
      [name |-> <<"a","u","d","i","o">>,
       extensions |-> << <<"a","i","f">>, <<"c","d","a">>, <<"m","i","d">>, <<"m","i","d","i">>,
                          <<"m","p","3">>, <<"m","p","a">>, <<"o","g","g">>, <<"w","a","v">>,
                          <<"w","m","a">>, <<"w","p","l">> >>],
      [name |-> <<"d","i","s","c">>,
       extensions |-> << <<"b","i","n">>, <<"d","m","g">>, <<"i","s","o">>,
                          <<"t","o","a","s","t">>, <<"v","c","d">> >>],
      [name |-> <<"d","a","t","a">>,
       extensions |-> << <<"c","s","v">>, <<"d","a","t">>, <<"d","b">>, <<"d","b","f">>,
                          <<"l","o","g">>, <<"m","d","b">>, <<"s","a","v">>, <<"s","q","l">>,
                          <<"t","a","r">>, <<"x","m","l">> >>],
      [name |-> <<"e","m","a","i","l">>,
       extensions |-> << <<"e","m","a","i","l">>, <<"e","m","l">>, <<"e","m","l","x">>,
                          <<"m","s","g">>, <<"o","f","t">>, <<"o","s","t">>, <<"p","s","t">>,
                          <<"v","c","f">> >>],
      [name |-> <<"e","x","e","c","u","t","a","b","l","e">>,
       extensions |-> << <<"a","p","k">>, <<"b","a","t">>, <<"b","i","n">>, <<"c","g","i">>,
                          <<"p","l">>, <<"c","o","m">>, <<"e","x","e">>,
                          <<"g","a","d","g","e","t">>, <<"j","a","r">>, <<"m","s","i">>,
                          <<"p","y">>, <<"w","s","f">> >>],
      [name |-> <<"f","o","n","t">>,
       extensions |-> << <<"f","n","t">>, <<"f","o","n">>, <<"o","t","f">>, <<"t","t","f">> >>],
      [name |-> <<"p","i","c","t","u","r","e","s">>,
       extensions |-> << <<"j","p","g">>, <<"p","n","g">>, <<"g","i","f">>, <<"w","e","b","p">>,
                          <<"t","i","f","f">>, <<"p","s","d">>, <<"r","a","w">>, <<"b","m","p">>,
                          <<"h","e","i","f">>, <<"i","n","d","d">>, <<"j","p","e","g">>,
                          <<"p","s","d">>, <<"s","v","g">>, <<"p","s">>, <<"a","i">> >>],
      [name |-> <<"p","r","e","s","e","n","t","a","t","i","o","n">>,
       extensions |-> << <<"k","e","y">>, <<"o","d","p">>, <<"p","p","s">>, <<"p","p","t">>,
                          <<"p","p","t","x">> >>],
      [name |-> <<"s","p","r","e","a","d","s","h","e","e","t">>,
       extensions |-> << <<"o","d","s">>, <<"x","l","s">>, <<"x","l","s","m">>,
                          <<"x","l","s","x">> >>],
      [name |-> <<"t","e","x","t">>,
       extensions |-> << <<"d","o","c">>, <<"d","o","c","x">>, <<"o","d","t">>, <<"p","d","f">>,
                          <<"r","t","f">>, <<"t","e","x">>, <<"t","x","t">>, <<"w","p","d">> >>],
      [name |-> <<"v","i","d","e","o">>,
       extensions |-> << <<"a","v","i">>, <<"f","l","v">>, <<"h","2","6","4">>, <<"m","4","v">>,
                          <<"m","k","v">>, <<"m","o","v">>, <<"m","p","4">>, <<"m","p","g">>,
                          <<"w","m","v">> >>] >>

\* for w in range(0,12)
NumCategories == 12

order == [k \in 1..NumCategories |-> filenames[k].name]

\* '/Users/<user>' is one segment here
n_home      == <<"h","o","m","e">>
n_Desktop   == <<"D","e","s","k","t","o","p">>
n_Documents == <<"D","o","c","u","m","e","n","t","s">>
n_dated     == <<"D","e","s","k","t","o","p","-","1","1","-","2","0","2","6">>
n_abin      == <<"a",".","b","i","n">>
n_pJPG      == <<"p",".","J","P","G">>
n_qjpg      == <<"q",".","j","p","g">>
n_rpsd      == <<"r",".","p","s","d">>
n_nxyz      == <<"n",".","x","y","z">>
n_saver     == <<"D","e","s","k","t","o","p","S","a","v","e","r",".","p","y">>
n_DS_Store  == <<".","D","S","_","S","t","o","r","e">>
n_localized == <<".","l","o","c","a","l","i","z","e","d">>

desktop   == << n_home, n_Desktop >>
documents == << n_home, n_Documents >>
dated     == << n_home, n_Documents, n_dated >>

\* if file == 'DesktopSaver.py' or file == '.DS_Store' or file == '.localized'
important(file) == file = n_saver \/ file = n_DS_Store \/ file = n_localized

\* what may lie on the desktop: [name, kind]
DesktopCandidates ==
    { [name |-> n_abin,  kind |-> "file"],
      [name |-> n_pJPG,  kind |-> "file"],
      [name |-> n_qjpg,  kind |-> "file"],
      [name |-> n_rpsd,  kind |-> "file"],
      [name |-> n_nxyz,  kind |-> "file"],
      [name |-> n_saver, kind |-> "file"],
      [name |-> n_Old,   kind |-> "dir"] }

\* what exists under Documents before the run
DocumentsSetups ==
    { {},
      { Node(documents, "dir") },
      { Node(documents, "dir"), Node(dated, "dir"),
        Node(join(dated, order[3]), "dir"),
        Node(join(join(dated, order[3]), n_abin), "file") } }

\* os.removedirs(p): p is removed if it is empty, then its parents upwards
\* as long as they are empty
RECURSIVE removedirs(_, _)
removedirs(f, p) ==
    IF p # << >> /\ isdir(f, p) /\ listdir(f, p) = {}
    THEN removedirs({ n \in f : n.path # p }, dirname(p))
    ELSE f

\* os.renames(old, new): the directories of new are created if missing, old
\* is renamed, and the directories of old that the rename emptied are pruned.
\* fault: the rename is refused; noPrune: the rmdir of the pruning is refused.
renames(f, old, new, failAt, fault, noPrune) ==
    LET head == dirname(new)
        mk   == IF ~exists(f, head)
                THEN makedirs(f, head, FALSE, failAt)
                ELSE [ok |-> TRUE, fs |-> f]
        rn   == rename(mk.fs, old, new)
    IN  IF ~mk.ok \/ fault \/ ~rn.ok
        THEN [ok |-> FALSE, fs |-> mk.fs]
        ELSE [ok |-> TRUE,
              fs |-> IF noPrune THEN rn.fs ELSE removedirs(rn.fs, dirname(old))]

\* the engine and GUI variables the original organizer does not have
unused == << file_types, skip_files, skip_folders, run, prev, sub_listing, sub_idx, gui >>

InitDesktopSaver ==
    \E d \in DocumentsSetups,
       E \in { S \in SUBSET DesktopCandidates : Cardinality(S) <= MaxEntries } :
        /\ fs = { Node(<< n_home >>, "dir"), Node(desktop, "dir") }
                  \cup { Node(join(desktop, c.name), c.kind) : c \in E } \cup d
        /\ fs0 = fs
        /\ source = desktop
        /\ destination = dated
        /\ file_types = << >>
        /\ skip_files = << >>
        /\ skip_folders = << >>
        /\ pc = "idle"
        /\ run = 1
        /\ prev = [pc |-> "none", out |-> << >>]
        /\ listing = << >>
        /\ idx = 1
        /\ sub_listing = << >>
        /\ sub_idx = 1
        /\ out = << >>
        /\ err = ""
        /\ custom_json_path = "None"
        /\ allowed_sources = << >>
        /\ json_files = << >>
        /\ messages = << >>
        /\ calls = 0
        /\ w = 1

file == listing[idx]

\* directories = os.listdir(source), outside the try block
DesktopSaver_listdir ==
    /\ pc = "idle"
    /\ \E lsFault \in BOOLEAN :
         IF lsFault \/ ~isdir(fs, source)
         THEN /\ pc' = "aborted"
              /\ err' = "SourceUnreadable"
              /\ UNCHANGED listing
         ELSE /\ \E o \in Orders(listdir(fs, source)) : listing' = o
              /\ pc' = "loop"
              /\ UNCHANGED err
    /\ UNCHANGED << fs, fs0, source, destination, idx, out, w, unused >>

\* the next file of the for loop is taken
NextFile ==
    /\ idx' = idx + 1
    /\ w' = 1
    /\ UNCHANGED << pc, listing, err, fs0, source, destination, unused >>

\* if file == ... : continue
DesktopSaver_continue ==
    /\ InLoop
    /\ w = 1
    /\ important(file)
    /\ NextFile
    /\ UNCHANGED << fs, out >>

\* how often the list of category k holds the extension of name, as written
Hits(k, name) ==
    Cardinality({ x \in 1..Len(filenames[k].extensions) :
                    filenames[k].extensions[x] = split_last(name) })

\* faulty variant: the categories are visited from the last to the first
DesktopSaver_category_reversed ==
    /\ InLoop
    /\ ~important(file)
    /\ w <= NumCategories
    /\ IF Hits(NumCategories + 1 - w, file) = 0
       THEN /\ w' = w + 1
            /\ UNCHANGED << fs, out, idx, pc, listing, err, fs0, source, destination, unused >>
       ELSE \E failAt \in 0..Len(destination) + 1, fault \in BOOLEAN, noPrune \in BOOLEAN :
              LET r == renames(fs, join(source, file),
                               join(join(destination, order[NumCategories + 1 - w]), file),
                               failAt, fault, noPrune)
              IN  /\ fs' = r.fs
                  /\ IF r.ok /\ Hits(NumCategories + 1 - w, file) = 1
                     THEN /\ w' = w + 1
                          /\ UNCHANGED << out, idx, pc, listing, err, fs0, source, destination, unused >>
                     ELSE /\ out' = Log("Error", file, << >>)
                          /\ NextFile

\* one pass of "for w in range(0,12)": the inner loop over the list of
\* category order[w].  Every x whose entry equals the extension calls
\* os.renames; an exception leaves both loops for "except Exception as e:
\* print(str(e))" and the outer loop takes the next file.  After a rename that
\* succeeded a second hit in the same list finds the source gone and raises.
DesktopSaver_category ==
    /\ InLoop
    /\ ~important(file)
    /\ w <= NumCategories
    /\ IF Hits(w, file) = 0
       THEN /\ w' = w + 1
            /\ UNCHANGED << fs, out, idx, pc, listing, err, fs0, source, destination, unused >>
       ELSE \E failAt \in 0..Len(destination) + 1, fault \in BOOLEAN, noPrune \in BOOLEAN :
              LET r == renames(fs, join(source, file),
                               join(join(destination, order[w]), file),
                               failAt, fault, noPrune)
              IN  /\ fs' = r.fs
                  /\ IF r.ok /\ Hits(w, file) = 1
                     THEN /\ w' = w + 1
                          /\ UNCHANGED << out, idx, pc, listing, err, fs0, source, destination, unused >>
                     ELSE /\ out' = Log("Error", file, << >>)
                          /\ NextFile

\* all twelve categories have been visited for this file
DesktopSaver_next ==
    /\ InLoop
    /\ ~important(file)
    /\ w > NumCategories
    /\ NextFile
    /\ UNCHANGED << fs, out >>

\* the for loop is exhausted and the script ends
DesktopSaver_end ==
    /\ pc = "loop"
    /\ idx > Len(listing)
    /\ pc' = "done"
    /\ UNCHANGED << fs, fs0, source, destination, listing, idx, out, err, w, unused >>

NextDesktopSaver ==
    \/ DesktopSaver_listdir
    \/ DesktopSaver_continue
    \/ DesktopSaver_category
    \/ DesktopSaver_next
    \/ DesktopSaver_end

SpecDesktopSaver == InitDesktopSaver /\ [][NextDesktopSaver]_vars

\* ---- vocabulary of the properties -------------------------------------------
name_of(n) == basename(n.path)

\* the entries directly in source: regular files, directories
TopFiles(f) == { n \in f : dirname(n.path) = source /\ n.kind = "file" }
TopDirs(f)  == { n \in f : dirname(n.path) = source /\ n.kind = "dir" }
Children(f, e) == { n \in f : dirname(n.path) = e.path }

\* category k lists the extension of name: the substring after the last '.',
\* compared without regard to case
Listed(k, name) ==
    \E i \in 1..Len(file_types[k].extensions) :
        lower(file_types[k].extensions[i]) = lower(split_last(name))

ListedCats(name) == { k \in 1..Len(file_types) : Listed(k, name) }

CatDir(k) == join(destination, file_types[k].file_type)

\* the skip policy for a file, as the specification words it
PolicySkips(name) == InSeq(name, skip_files) \/ name[1] = "."

\* the node that began the run as n now lies at path p
NowAt(n, p) == \E m \in fs : m.id = n.id /\ m.kind = n.kind /\ m.path = p

Logged(kind, name) == \E i \in 1..Len(out) : out[i].kind = kind /\ out[i].item = name

\* the run returned and none of its filesystem operations failed
CleanRun == pc = "done" /\ \A i \in 1..Len(out) : out[i].kind # "FailedToDelete"


\* ---- C1 ----------------------------------------------------------------------
\* C1 as claimed: after a run that returned with no failed filesystem
\* operation, every top-level regular file of source that the skip policy does
\* not exclude and whose extension some category lists is at
\* destination/C/<name> for a category C that lists it, and nothing is left at
\* its original path.
C1_Original ==
    CleanRun =>
        \A n \in TopFiles(fs0) :
            (~PolicySkips(name_of(n)) /\ ListedCats(name_of(n)) # {}) =>
                /\ \E k \in ListedCats(name_of(n)) : NowAt(n, join(CatDir(k), name_of(n)))
                /\ ~exists(fs, n.path)

\* C1 as amended: the file is at destination/C/<name>, or, when
\* destination/C/<name> is an existing directory, inside that directory at
\* destination/C/<name>/<name>; nothing is left at its original path.
C1_Classified ==
    CleanRun =>
        \A n \in TopFiles(fs0) :
            (~PolicySkips(name_of(n)) /\ ListedCats(name_of(n)) # {}) =>
                /\ \E k \in ListedCats(name_of(n)) :
                     LET target == join(CatDir(k), name_of(n))
                     IN  \/ NowAt(n, target)
                         \/ isdir(fs, target) /\ NowAt(n, join(target, name_of(n)))
                /\ ~exists(fs, n.path)

\* a run returned cleanly and moved a file whose extension differs in case
\* from the listed one into its category directory
C1_Witness ==
    /\ CleanRun
    /\ \E n \in TopFiles(fs0) :
         /\ ~PolicySkips(name_of(n))
         /\ split_last(name_of(n)) # lower(split_last(name_of(n)))
         /\ \E k \in ListedCats(name_of(n)) : NowAt(n, join(CatDir(k), name_of(n)))

\* ---- C2 ----------------------------------------------------------------------
FirstCat(name) ==
    CHOOSE k \in ListedCats(name) : \A j \in ListedCats(name) : k <= j

\* C2: first match wins.  Whenever the loop moves the regular file it is at
\* away from source, the file lands under destination/A for the first
\* category A of the table that lists its extension and under no later
\* category's directory, exactly one move is logged for it, none was logged
\* for it before, and the loop goes on to the next entry.
C2_FirstMatchWins ==
    [][ (InLoop /\ isfile(fs, full_path) /\ ~exists(fs', full_path)) =>
          LET A == FirstCat(item)
              n == CHOOSE m \in fs : m.path = full_path
          IN  /\ ListedCats(item) # {}
              /\ \E m \in fs' : m.id = n.id /\ IsPrefix(CatDir(A), m.path)
              /\ \A B \in ListedCats(item) \ {A} :
                    ~\E m \in fs' : m.id = n.id /\ IsPrefix(CatDir(B), m.path)
              /\ out' = Append(out, [kind |-> "Moved", item |-> item, to |-> CatDir(A)])
              /\ \A i \in 1..Len(out) :
                    ~(out[i].kind = "Moved" /\ out[i].item = item
                        /\ \E k \in 1..Len(file_types) : out[i].to = CatDir(k))
              /\ idx' = idx + 1
      ]_vars

\* a file whose extension two categories list was moved into the first one's directory
C2_Witness ==
    \E i \in 1..Len(out) :
        /\ out[i].kind = "Moved"
        /\ Cardinality(ListedCats(out[i].item)) >= 2
        /\ out[i].to = CatDir(FirstCat(out[i].item))
        /\ \E m \in fs : m.kind = "file" /\ m.path = join(CatDir(FirstCat(out[i].item)), out[i].item)

\* ---- C3 ----------------------------------------------------------------------
\* C3: skip-list precedence.  In every state of a run, a top-level regular file
\* whose name is in skip_files or starts with '.' is still the same file at
\* its original path, whatever the table lists.
C3_SkippedNeverMoved ==
    \A n \in TopFiles(fs0) : PolicySkips(name_of(n)) => n \in fs

\* a run returned having skipped a file whose extension a category lists
C3_Witness ==
    /\ pc = "done"
    /\ \E n \in TopFiles(fs0) :
         /\ PolicySkips(name_of(n))
         /\ ListedCats(name_of(n)) # {}
         /\ Logged("SkippingFile", name_of(n))
         /\ n \in fs

\* ---- C4 ----------------------------------------------------------------------
\* C4: no match leaves the file untouched.  In every state of a run a top-level
\* regular file whose extension no category lists is still at its original
\* path, and the step of the loop that handles it changes nothing in the
\* filesystem (no directory is created for it under destination).
C4_NoMatchUntouched ==
    /\ [](\A n \in TopFiles(fs0) : ListedCats(name_of(n)) = {} => n \in fs)
    /\ [][ (InLoop /\ isfile(fs, full_path) /\ ListedCats(item) = {}) => fs' = fs ]_vars

\* a run returned after its loop went over a non-skipped file that no category lists
C4_Witness ==
    /\ pc = "done"
    /\ \E n \in TopFiles(fs0) :
         /\ ListedCats(name_of(n)) = {}
         /\ ~PolicySkips(name_of(n))
         /\ InSeq(name_of(n), listing)
         /\ n \in fs


\* ---- C5 ----------------------------------------------------------------------
\* the directory e was reached by the loop and is not skipped
FlattenStarted(e) ==
    /\ ~InSeq(name_of(e), skip_folders)
    /\ ~PolicySkips(name_of(e))
    /\ \E i \in 1..Len(listing) :
         /\ listing[i] = name_of(e)
         /\ i < idx \/ (i = idx /\ pc = "aborted" /\ err = "MoveFailed")

\* the move of child c of e is the one that failed
MoveOfFailed(e, c) ==
    /\ pc = "aborted" /\ err = "MoveFailed"
    /\ idx <= Len(listing) /\ listing[idx] = name_of(e)
    /\ sub_idx <= Len(sub_listing) /\ sub_listing[sub_idx] = name_of(c)

\* C5 as claimed: when a run is over, every immediate child of a flattened
\* top-level directory e is at destination/<e.name>/<c.name> unless it could
\* not be moved, and e is gone unless its removal failed.
C5_Claim ==
    pc \in { "done", "aborted" } =>
        \A e \in TopDirs(fs0) :
            FlattenStarted(e) =>
                /\ \A c \in Children(fs0, e) :
                      \/ NowAt(c, join(join(destination, name_of(e)), name_of(c)))
                      \/ MoveOfFailed(e, c)
                /\ ~exists(fs, e.path) \/ Logged("FailedToDelete", name_of(e))

\* ---- C6 ----------------------------------------------------------------------
\* C6 as claimed: a failed move is caught at its entry, so no run ends on a
\* failed move with later entries of the source listing left unprocessed.
C6_Claim ==
    ~(pc = "aborted" /\ err = "MoveFailed" /\ idx < Len(listing))

C8_Original ==
    (pc = "aborted" /\ err = "SourceUnreadable") => fs = fs0

\* C8 as amended: when the source cannot be listed the run fails, no entry has
\* been processed, nothing was moved or removed, and the only directories
\* created are the destination root and its missing ancestors.
C8_SourceUnreadable ==
    (pc = "aborted" /\ err = "SourceUnreadable") =>
        /\ fs0 \subseteq fs
        /\ \A n \in fs \ fs0 : n.kind = "dir" /\ IsPrefix(n.path, destination)
        /\ out = << >>

\* the listing failed after the destination root had been created
C8_Witness ==
    /\ pc = "aborted" /\ err = "SourceUnreadable"
    /\ ~exists(fs0, destination) /\ isdir(fs, destination)

\* ---- C9 ----------------------------------------------------------------------
\* C9: a destination that does not exist when the run is started is a
\* directory, with all its ancestors, once the loop over the source entries
\* runs; if it is not a directory after the setup the run has failed with
\* DestinationUnwritable; and a run that failed so has processed no entry and
\* moved or removed nothing.
C9_DestinationEnsured ==
    /\ (pc \in { "loop", "flatten", "done" } /\ ~exists(fs0, destination)) =>
          \A k \in 1..Len(destination) : isdir(fs, SubSeq(destination, 1, k))
    /\ (pc # "idle" /\ ~exists(fs0, destination) /\ ~isdir(fs, destination)) =>
          (pc = "aborted" /\ err = "DestinationUnwritable")
    /\ (pc = "aborted" /\ err = "DestinationUnwritable") =>
          (fs0 \subseteq fs /\ out = << >> /\ listing = << >>)

\* the loop is about to process its first entry and the destination, missing
\* with its parent at the start, is now a directory
C9_Witness ==
    /\ pc = "loop" /\ idx = 1 /\ Len(listing) > 0
    /\ ~exists(fs0, dirname(destination))
    /\ isdir(fs, destination)

\* ---- C10 ---------------------------------------------------------------------
\* C10: when the removal of a flattened directory fails, the failure is
\* logged, nothing in the filesystem changes, and the loop goes on with the
\* next entry of the same listing.
C10_RemovalFailureNonFatal ==
    [][ (pc = "flatten" /\ sub_idx > Len(sub_listing) /\ isdir(fs', full_path)) =>
          /\ out' = Append(out, [kind |-> "FailedToDelete", item |-> item, to |-> << >>])
          /\ fs' = fs
          /\ pc' = "loop" /\ err' = ""
          /\ listing' = listing /\ idx' = idx + 1
      ]_vars

\* a run returned that logged a failed removal and then the outcome of a later entry
C10_Witness ==
    /\ pc = "done"
    /\ \E i \in 1..Len(out) :
         /\ out[i].kind = "FailedToDelete"
         /\ isdir(fs, join(source, out[i].item))
         /\ i < Len(out)


\* ---- C11 ---------------------------------------------------------------------
\* C11 as claimed: every entry of the listing that the loop has gone past has
\* an outcome record of its own in the log; no entry is passed over silently.
C11_Claim ==
    \A i \in 1..Len(listing) :
        (i < idx /\ isfile(fs0, join(source, listing[i]))) =>
            \E j \in 1..Len(out) : out[j].item = listing[i]


\* ---- C12 ---------------------------------------------------------------------
\* the skip policy for a directory, as the specification words it
DirPolicySkips(name) ==
    InSeq(name, skip_folders) \/ InSeq(name, skip_files) \/ name[1] = "."

Subtree(f, p) == { n \in f : IsPrefix(p, n.path) }

\* C12: skipped directories are untouched.  In every state of a run, a
\* top-level directory whose name is in skip_folders, or in skip_files, or
\* starts with '.', is still there with everything that was below it, nothing
\* has been added below it, and no directory destination/<name> has been
\* created for it.
C12_SkippedDirUntouched ==
    \A e \in TopDirs(fs0) :
        DirPolicySkips(name_of(e)) =>
            /\ Subtree(fs0, e.path) \subseteq fs
            /\ (~IsPrefix(e.path, destination) => Subtree(fs, e.path) \subseteq fs0)
            /\ \A m \in fs : m.path = join(destination, name_of(e)) => m \in fs0

\* a run returned having skipped a hidden directory and a directory named in
\* skip_folders, each with a child
C12_Witness ==
    /\ pc = "done"
    /\ \E e \in TopDirs(fs0) :
         /\ InSeq(name_of(e), skip_folders)
         /\ Children(fs0, e) # {}
         /\ Logged("SkippingFolder", name_of(e))
    /\ \E e \in TopDirs(fs0) :
         /\ name_of(e)[1] = "."
         /\ Children(fs0, e) # {}
         /\ Logged("SkippingFile", name_of(e))


\* ---- C13 ---------------------------------------------------------------------
DefaultConfiguration == json_files[default_json_path].value

UploadFailedText ==
    { "The selected file is not a valid JSON configuration.", "An error occurred" }

\* C13: the active configuration is the default one unless a custom file is
\* loaded.  In every state of the GUI, custom_json_path = None implies that
\* file_types is the content of the default file, and a state whose last
\* message is the revert message has no custom path and the default
\* file_types; every handler call that is a cancelled dialog or ends in an
\* upload error leaves custom_json_path and file_types as they were.
C13_DefaultUnlessCustom ==
    /\ [](custom_json_path = "None" => file_types = DefaultConfiguration)
    /\ []((messages # << >>
            /\ messages[Len(messages)] = "Reverted to the default configuration.")
          => (custom_json_path = "None" /\ file_types = DefaultConfiguration))
    /\ [][(calls' = calls + 1
            /\ (messages' = messages
                \/ messages'[Len(messages')] \in UploadFailedText))
          => UNCHANGED << custom_json_path, file_types >>]_vars

\* a custom table that differs from the default was loaded, an invalid file
\* was then refused, and the custom configuration was removed
C13_Witness ==
    /\ messages = << "Custom configuration loaded successfully!",
                     "The selected file is not a valid JSON configuration.",
                     "Reverted to the default configuration." >>
    /\ json_files["a.json"].value # DefaultConfiguration
    /\ custom_json_path = "None"
    /\ file_types = DefaultConfiguration


\* ---- C14 ---------------------------------------------------------------------
\* C14 as claimed: while a directory is flattened, the failure to move one
\* child does not stop the flattening, so the run never ends on the failed
\* move of a child while later children of the listing are still unmoved.
C14_Claim ==
    ~ /\ pc = "aborted"
      /\ err = "MoveFailed"
      /\ idx <= Len(listing)
      /\ isdir(fs, full_path)
      /\ sub_idx < Len(sub_listing)
      /\ \A k \in sub_idx..Len(sub_listing) : exists(fs, join(full_path, sub_listing[k]))


\* ---- C15 ---------------------------------------------------------------------
NoDot(name) == \A i \in 1..Len(name) : name[i] # "."

\* the categories that list the whole name, compared without regard to case
NameListedCats(name) ==
    { k \in 1..Len(file_types) :
        \E i \in 1..Len(file_types[k].extensions) :
            lower(file_types[k].extensions[i]) = lower(name) }

\* C15 as claimed: a top-level regular file whose name contains no '.'
\* matches no category and is left in place in source.
C15_Original ==
    \A n \in TopFiles(fs0) : NoDot(name_of(n)) => n \in fs

\* C15, amended: for a top-level regular file whose name contains no '.' the
\* whole name, lowercased, is the extension.  If no category lists that name
\* the file stays at its path in every state, and the step of the loop that
\* handles it goes on to the next entry without failing and without touching
\* the filesystem; if a category lists the name and the skip policy does not
\* exclude the file, a run that returns has moved it under the directory of
\* the first such category.
C15_NoDotName ==
    /\ [](\A n \in TopFiles(fs0) :
            (NoDot(name_of(n)) /\ NameListedCats(name_of(n)) = {}) => n \in fs)
    /\ [](pc = "done" =>
            \A n \in TopFiles(fs0) :
                (/\ NoDot(name_of(n))
                 /\ NameListedCats(name_of(n)) # {}
                 /\ ~PolicySkips(name_of(n)))
                => /\ n \notin fs
                   /\ \E m \in fs, k \in NameListedCats(name_of(n)) :
                        /\ \A j \in NameListedCats(name_of(n)) : k <= j
                        /\ m.id = n.id
                        /\ IsPrefix(CatDir(k), m.path))
    /\ [][(/\ pc = "loop"
           /\ idx <= Len(listing)
           /\ isfile(fs, full_path)
           /\ NoDot(item)
           /\ NameListedCats(item) = {}
           /\ << pc, idx >> # << pc', idx' >>)
          => (pc' = "loop" /\ idx' = idx + 1 /\ fs' = fs)]_vars

\* a run returned with a file whose name has no '.' and is listed nowhere
\* still in place, the loop having gone past it
C15_Witness ==
    /\ pc = "done"
    /\ \E n \in TopFiles(fs0) :
         /\ NoDot(name_of(n))
         /\ NameListedCats(name_of(n)) = {}
         /\ ~PolicySkips(name_of(n))
         /\ InSeq(name_of(n), listing)
         /\ n \in fs


\* ---- C16 ---------------------------------------------------------------------
\* C16 as claimed: a run never processes an entry that was created during
\* the run, also when destination lies inside source: the directory that is
\* being flattened existed in source when the run was started.
C16_Claim ==
    (pc = "flatten" /\ IsPrefix(source, destination)) => exists(fs0, full_path)


\* ---- C17 ---------------------------------------------------------------------
\* the step moves everything at and below p to t, each node at the same
\* relative path, and nothing else in the filesystem changes
MovedWhole(p, t) ==
    /\ \A n \in Subtree(fs, p) :
         \E m \in fs' : /\ m.id = n.id
                        /\ m.kind = n.kind
                        /\ m.path = t \o SubSeq(n.path, Len(p) + 1, Len(n.path))
    /\ Cardinality(Subtree(fs', t)) = Cardinality(Subtree(fs, p))
    /\ Subtree(fs', p) = {}
    /\ fs \ Subtree(fs, p) = fs' \ Subtree(fs', t)

\* a step of the inner loop has moved a child that is a directory
ChildDirMoved ==
    /\ pc = "flatten"
    /\ sub_idx <= Len(sub_listing)
    /\ isdir(fs, sub_item_path)
    /\ sub_idx' = sub_idx + 1

\* the step reports the child and nothing of what lies below it
OneRecordFor(name) ==
    /\ Len(out') = Len(out) + 1
    /\ SubSeq(out', 1, Len(out)) = out
    /\ out'[Len(out')].item = name

\* C17 as claimed: a child directory d of a flattened directory e is moved as
\* a whole subtree to destination/<e.name>/<d.name>.
C17_Original ==
    [][ChildDirMoved => MovedWhole(sub_item_path, join(folder_dest, sub_item))]_vars

\* C17, amended: only one level of flattening.  A step that moves a child
\* directory d of a flattened directory e moves d with everything below it,
\* the internal structure unchanged, to destination/<e.name>/<d.name>, or to
\* destination/<e.name>/<d.name>/<d.name> when destination/<e.name>/<d.name>
\* already is a directory; nothing else changes in the filesystem and the
\* step reports d alone, nothing below d.
C17_OneLevel ==
    [][ChildDirMoved =>
        /\ MovedWhole(sub_item_path,
                      IF isdir(fs, join(folder_dest, sub_item))
                      THEN join(join(folder_dest, sub_item), sub_item)
                      ELSE join(folder_dest, sub_item))
        /\ OneRecordFor(sub_item)]_vars

\* a directory with a file in it, child of a top-level directory, now lies
\* with that file at destination/<e.name>/<d.name>
C17_Witness ==
    \E e \in TopDirs(fs0) :
      \E d \in Children(fs0, e) :
        /\ d.kind = "dir"
        /\ Children(fs0, d) # {}
        /\ \A n \in Subtree(fs0, d.path) :
             NowAt(n, join(join(destination, name_of(e)), name_of(d))
                        \o SubSeq(n.path, Len(d.path) + 1, Len(n.path)))
        /\ Logged("Moved", name_of(d))
        /\ \A n \in Children(fs0, d) : ~Logged("Moved", name_of(n))


\* ---- C18 ---------------------------------------------------------------------
RemovalKinds == { "DeletedFolder", "FailedToDelete" }

\* the positions in the log of the removal outcome of the top-level entry e
RemovalAt(e) ==
    { j \in 1..Len(out) : out[j].kind \in RemovalKinds /\ out[j].item = e }

\* the record at position i of the log is the outcome of a child of e
ChildRecord(i, e) == out[i].kind = "Moved" /\ out[i].to = join(destination, e)

\* the record at position i of the log belongs to the top-level entry e
EntryRecord(i, e) == ChildRecord(i, e) \/ (out[i].item = e /\ out[i].to # join(destination, e))

\* the entry at position p of the listing is a directory the policy does not skip
Flattened(p) ==
    /\ isdir(fs0, join(source, listing[p]))
    /\ ~DirPolicySkips(listing[p])

\* C18: ordering within a flatten.  For every top-level directory e that is
\* flattened: the log never holds more than one removal outcome of e, and
\* holds exactly one once the loop has gone past e; when it is reported,
\* every child e had is already reported as moved and no child outcome of e
\* follows it; every outcome of a later entry of the listing comes after it.
\* The step that removes e from the filesystem is the step that reports it.
C18_RemovalLast ==
    /\ [](\A p \in 1..Len(listing) :
            Flattened(p) =>
              LET e == listing[p]
              IN  /\ Cardinality(RemovalAt(e)) <= 1
                  /\ p < idx => Cardinality(RemovalAt(e)) = 1
                  /\ \A j \in RemovalAt(e) :
                       /\ \A c \in { n \in fs0 : dirname(n.path) = join(source, e) } :
                            \E i \in 1..(j - 1) :
                                ChildRecord(i, e) /\ out[i].item = name_of(c)
                       /\ \A i \in 1..Len(out) : ChildRecord(i, e) => i < j
                  /\ \A i \in 1..Len(out) :
                       (\E q \in (p + 1)..Len(listing) : EntryRecord(i, listing[q]))
                       => \E j \in RemovalAt(e) : j < i)
    /\ [][\A p \in 1..Len(listing) :
            (Flattened(p) /\ isdir(fs, join(source, listing[p]))
                          /\ ~isdir(fs', join(source, listing[p])))
            => out' = Append(out, [kind |-> "DeletedFolder", item |-> listing[p], to |-> << >>])]_vars

\* a run returned having flattened a directory with two children and then
\* handled a later entry: two child outcomes, the removal outcome, the
\* outcome of the later entry, in that order
C18_Witness ==
    /\ pc = "done"
    /\ \E p \in 1..Len(listing) :
         /\ Flattened(p)
         /\ p < Len(listing)
         /\ \E i1, i2, j, k \in 1..Len(out) :
              /\ i1 < i2 /\ i2 < j /\ j < k
              /\ ChildRecord(i1, listing[p])
              /\ ChildRecord(i2, listing[p])
              /\ j \in RemovalAt(listing[p])
              /\ EntryRecord(k, listing[p + 1])


\* ---- C19 ---------------------------------------------------------------------
DesktopEntries(f) == { n \in f : dirname(n.path) = source }

\* the categories of filenames.order whose list holds the extension as written
OrderListed(name) ==
    { k \in 1..NumCategories :
        \E x \in 1..Len(filenames[k].extensions) :
            filenames[k].extensions[x] = split_last(name) }

FirstListed(name) == CHOOSE k \in OrderListed(name) : \A j \in OrderListed(name) : k <= j

FirstTarget(name) == join(join(destination, order[FirstListed(name)]), name)

TwoCategories(name) == Cardinality(OrderListed(name)) >= 2 /\ ~important(name)

\* C19: an extension listed in two categories (twelve-category organizer).
\* An entry of the desktop whose extension two categories list is, in every
\* state, either where it was or at destination/<first listing category>/
\* <name>, never under a later category and never in two places; the step in
\* which it leaves the desktop puts it there; no exception ends the loop, and
\* the step that finishes such an entry goes on to the next entry of the
\* listing.
C19_MovedOnceToFirst ==
    /\ [](\A n \in DesktopEntries(fs0) :
            /\ Cardinality({ m \in fs : m.id = n.id }) > 1 => ~TwoCategories(name_of(n))
            /\ \A m \in fs :
                 (m.id = n.id /\ m.path # n.path /\ TwoCategories(name_of(n)))
                 => m.path = FirstTarget(name_of(n)))
    /\ [](pc = "aborted" => listing = << >>)
    /\ [][\A n \in DesktopEntries(fs) :
            (n \notin fs' /\ TwoCategories(name_of(n)))
            => \E m \in fs' : m.id = n.id /\ m.path = FirstTarget(name_of(n))]_vars
    /\ [][(/\ idx' # idx
           /\ pc = "loop"
           /\ idx <= Len(listing)
           /\ TwoCategories(listing[idx]))
          => (pc' = "loop" /\ idx' = idx + 1 /\ listing' = listing)]_vars

\* the script ended; a file with an extension of two categories lies under
\* the first of them, the second attempt to move it was reported, and a file
\* after it in the listing was moved as well
C19_Witness ==
    /\ pc = "done"
    /\ \E p, q \in 1..Len(listing) :
         /\ p < q
         /\ TwoCategories(listing[p])
         /\ \E n \in DesktopEntries(fs0) :
              name_of(n) = listing[p] /\ NowAt(n, FirstTarget(listing[p]))
         /\ Logged("Error", listing[p])
         /\ OrderListed(listing[q]) # {}
         /\ \E n \in DesktopEntries(fs0) :
              name_of(n) = listing[q] /\ NowAt(n, FirstTarget(listing[q]))

\* ---- C20 ---------------------------------------------------------------------
\* the categories whose list holds the extension, compared without regard to case
OrderListedAnyCase(name) ==
    { k \in 1..NumCategories :
        \E x \in 1..Len(filenames[k].extensions) :
            lower(filenames[k].extensions[x]) = lower(split_last(name)) }

\* C20 as claimed: classification is case-insensitive in the twelve-category
\* organizer: when the script has ended without any error, every file of the
\* desktop that is not one of the three exempt names and whose extension a
\* category lists, compared without regard to case, has been moved away.
C20_Claim ==
    (pc = "done" /\ out = << >>) =>
        \A n \in DesktopEntries(fs0) :
            (/\ n.kind = "file"
             /\ ~important(name_of(n))
             /\ OrderListedAnyCase(name_of(n)) # {})
            => n \notin fs


\* ---- C21 ---------------------------------------------------------------------
IgnoreHandlerText ==
    { "Ignore data updated successfully!",
      "An error occurred: open",
      "An error occurred: write",
      "The ignore settings have been reset to the default values.",
      "An error occurred while reverting to the default settings" }

\* C21 as claimed: when the last handler to report was save_ignore_data or a
\* confirmed revert_ignore_to_default, self.ignore_files and
\* self.ignore_folders are the lists load_ignore_json would return now,
\* whether or not the write of ignore.json succeeded.
C21_Claim ==
    (messages # << >> /\ messages[Len(messages)] \in IgnoreHandlerText)
    => << skip_files, skip_folders >> = load_ignore_json(json_files)


\* ---- C22 ---------------------------------------------------------------------
\* where the run sends what it moves, read off its starting filesystem: a
\* top-level file with a listed extension goes below a category directory, a
\* child of a top-level directory below destination/<directory name>
MovedFiles0 ==
    { n \in TopFiles(fs0) : ~PolicySkips(name_of(n)) /\ ListedCats(name_of(n)) # {} }

MovedChildren0 ==
    UNION { Children(fs0, e) : e \in { d \in TopDirs(fs0) : ~DirPolicySkips(name_of(d)) } }

TargetOf(n) ==
    IF n \in MovedFiles0
    THEN join(CatDir(FirstCat(name_of(n))), name_of(n))
    ELSE join(join(destination, basename(dirname(n.path))), name_of(n))

\* no two moved items target the same path and nothing under destination
\* has the name of a moved item
NoClash ==
    /\ \A n, m \in MovedFiles0 \cup MovedChildren0 :
          n # m => TargetOf(n) # TargetOf(m)
    /\ \A d \in fs0 :
          (IsPrefix(destination, d.path) /\ d.path # destination)
             => \A n \in MovedFiles0 \cup MovedChildren0 : name_of(d) # name_of(n)

Files0 ==
    { n \in fs0 : n.kind = "file"
                  /\ (IsPrefix(source, n.path) \/ IsPrefix(destination, n.path)) }

C22_Unconditional ==
    \A n \in Files0 : Cardinality({ m \in fs : m.id = n.id }) = 1


\* ---- C23 ---------------------------------------------------------------------
UnderDestination(f) == { n \in f : IsPrefix(destination, n.path) /\ n.path # destination }

\* the child the flattening is at, and where the code sends it
ChildAt == join(join(source, listing[idx]), sub_listing[sub_idx])
ChildTarget == join(join(destination, listing[idx]), sub_listing[sub_idx])

\* C23 as claimed: no step of a run moves, renames or removes an entry that
\* lies under the destination root, also when destination lies inside source
\* under a folder the skip lists do not name, and no run fails because of
\* such an entry: when the flattening comes to one, the move it attempts is
\* not one that is bound to fail.
C23_Claim ==
    [][ /\ \A n \in UnderDestination(fs) : n \in fs'
        /\ (pc = "flatten" /\ sub_idx <= Len(sub_listing) /\ IsPrefix(destination, ChildAt))
              => move(fs, ChildAt, ChildTarget, FALSE).ok
      ]_vars


\* ---- C24 ---------------------------------------------------------------------
\* the child the flattening is at has arrived below destination/<e.name>/
\* under its own name and has left the flattened directory
ChildArrived ==
    \E n \in fs : /\ n.path = ChildAt
                  /\ n \notin fs'
                  /\ \E m \in fs' : /\ m.id = n.id /\ m.kind = n.kind
                                    /\ m.path \in { ChildTarget, join(ChildTarget, name_of(n)) }

C25_Claim ==
    \A k \in 1..Len(file_types) :
        (isdir(fs, CatDir(k)) /\ ~exists(fs0, CatDir(k)))
        => \E m \in fs : /\ dirname(m.path) = CatDir(k)
                         /\ m.kind = "file"
                         /\ \E n \in fs0 : n.id = m.id /\ n.kind = "file" /\ n.path # m.path


\* ---- C26 ---------------------------------------------------------------------
SourcePaths(d) == { d[k] : k \in DOMAIN d }

\* C26 as claimed: the set of allowed source paths only grows.  Every path
\* that is a value of allowed_sources before a call of add_custom_source is a
\* value after it, the default Desktop and Downloads paths included, also
\* when the selected folder has the base name of an existing entry.
C26_Claim ==
    [][ SourcePaths(allowed_sources) \subseteq SourcePaths(allowed_sources') ]_vars


\* ---- C27 ---------------------------------------------------------------------
\* C27 as claimed: the source directory survives a run.  In every state of a
\* run, also after every entry of source was moved out, source and each of
\* its ancestors is still a directory.
C27_Claim ==
    \A k \in 1..Len(source) : isdir(fs, SubSeq(source, 1, k))

====
